---- MODULE Spec2Model ----
(***************************************************************************)
(* A model of src/main.py (SolanaGPT): the /resolve handler with its       *)
(* lru_cache'd Jupiter token map, the /swap handler (simulate_swap) and    *)
(* the multi-endpoint RPC helper get_rpc_response as used by               *)
(* /transaction.                                                           *)
(*                                                                         *)
(* The three handler families share no state (only /resolve reads the      *)
(* token-map cache), so a behaviour exercises one family, chosen in Init   *)
(* and recorded in `endpoint`.                                             *)
(***************************************************************************)
EXTENDS Integers, Sequences, FiniteSets, TLC

VARIABLES
    endpoint,   \* "resolve" | "swap" | "rpc": the handler family exercised
    cache,      \* the lru_cache of get_jupiter_token_map (main.py:70)
    fetches,    \* number of GETs of JUPITER_TOKEN_LIST_URL issued so far
    pc,        \* pc of each worker thread running resolve_symbol
    rsym,       \* the `symbol` argument of each thread's request
    rmap,       \* the token_map each thread obtained (main.py:80)
    rtrace,     \* per request: the lookup events performed, in order
    rres,       \* the HTTP response of each thread's request
    spc,        \* pc of the /swap request: "idle" | "quoting" | "done"
    sreq,       \* the query parameters of the /swap request
    squote,     \* the quote requests sent to Jupiter for it, in order
    sreply,     \* what Jupiter answered
    sres,       \* the HTTP response of the /swap request
    xpc,        \* pc of the /transaction request: "idle" | "loop" | "done"
    rpc_list,   \* the shuffled copy of RPC_ENDPOINTS (main.py:92-93)
    xidx,       \* position in rpc_list of the next endpoint to contact
    xlog,       \* the POSTs made for the request: endpoint and reply, in order
    xres        \* the response of the /transaction request

resolveVars == <<cache, fetches, pc, rsym, rmap, rtrace, rres>>
swapVars == <<spc, sreq, squote, sreply, sres>>
rpcVars == <<xpc, rpc_list, xidx, xlog, xres>>
vars == <<endpoint, cache, fetches, pc, rsym, rmap, rtrace, rres,
          spc, sreq, squote, sreply, sres, xpc, rpc_list, xidx, xlog, xres>>

----------------------------------------------------------------------------
(* Bounds *)

NThreads == 2          \* concurrent /resolve requests (threadpool workers)
NumEndpoints == 3      \* how many of the 11 RPC_ENDPOINTS the model keeps

Threads == 1..NThreads

----------------------------------------------------------------------------
(* Strings: Python str operations on ASCII text *)

UpperAlpha == "ABCDEFGHIJKLMNOPQRSTUVWXYZ"
LowerAlpha == "abcdefghijklmnopqrstuvwxyz"

CharAt(s, i) == SubSeq(s, i, i)

RECURSIVE IndexOf(_, _, _)
\* 1-based position of character c in s scanning from i, 0 when absent
IndexOf(c, s, i) ==
    IF i > Len(s) THEN 0
    ELSE IF CharAt(s, i) = c THEN i
    ELSE IndexOf(c, s, i + 1)

MapChar(c, from, to) ==
    LET k == IndexOf(c, from, 1) IN IF k = 0 THEN c ELSE CharAt(to, k)

RECURSIVE MapStr(_, _, _)
MapStr(s, from, to) ==
    IF Len(s) = 0 THEN ""
    ELSE MapChar(CharAt(s, 1), from, to) \o MapStr(SubSeq(s, 2, Len(s)), from, to)

\* str.lower()
Lower(s) == MapStr(s, UpperAlpha, LowerAlpha)
\* str.upper()
Upper(s) == MapStr(s, LowerAlpha, UpperAlpha)
\* str.startswith(p)
StartsWith(s, p) == Len(s) >= Len(p) /\ SubSeq(s, 1, Len(p)) = p

----------------------------------------------------------------------------
(* Mint addresses and the token-list feed *)

WSOL_MINT == "So11111111111111111111111111111111111111112"
USDC_MINT == "EPjFWdd5AufqSSqeM2qN1xzybapC8G4wEGGkZwyTDt1v"
USDT_MINT == "Es9vMFrzaCjLwSX5ae4Ew9WVeEKXZotPwX3hPJJrEvDw"
BONK_MINT == "DezXAZ8z7PnrnRJjz3wXBoRgixCa6xjnB7YaB1pPB263"
\* a second mint whose token-list entry also carries the symbol BONK
BONK2_MINT == "TokenkegQfeZyiNwAJbNbGKPFXCWuBvf9Ss623VQ5DA"
\* text longer than 30 characters that starts with "So" and is no address
LONG_SO_TEXT == "SolanaIsTheBestChainEverNoReallyItIs"

\* One entry of the token list: a JSON object that may lack either key.
Tok(sym, addr) == [symbol |-> sym, address |-> addr]
TokNoSymbol(addr) == [address |-> addr]
TokNoAddress(sym) == [symbol |-> sym]

\* Bodies the token-list endpoint may answer with (resp.json()).
TokenLists ==
    { <<Tok("SOL", WSOL_MINT), Tok("USDC", USDC_MINT),
        Tok("Bonk", BONK_MINT), Tok("BONK", BONK2_MINT)>>,
      <<Tok("USDC", USDC_MINT), Tok("BONK", BONK_MINT),
        TokNoSymbol(USDT_MINT), TokNoAddress("WIF")>> }

\* Outcome of requests.get(JUPITER_TOKEN_LIST_URL).json(): a list, or an
\* exception (timeout, transport error, invalid JSON).
FetchOutcomes ==
    {[ok |-> TRUE, tokens |-> l] : l \in TokenLists}
        \cup {[ok |-> FALSE, tokens |-> <<>>]}

\* Values of the `symbol` query parameter of /resolve.
ResolveInputs ==
    {"", " ", "BONK", "usdc", WSOL_MINT, USDC_MINT, LONG_SO_TEXT}

----------------------------------------------------------------------------
(* HTTP responses of /resolve *)

ResolveOk(symbol, mint) ==
    [status |-> 200, detail |-> "", symbol |-> symbol, mint |-> mint]
HTTPException(code, text) ==
    [status |-> code, detail |-> text, symbol |-> "", mint |-> ""]
NoResponse == [status |-> 0, detail |-> "", symbol |-> "", mint |-> ""]

----------------------------------------------------------------------------
(* get_jupiter_token_map and its cache *)

RECURSIVE TokenMapFrom(_, _, _)
\* the dict comprehension of main.py:75, entries inserted in list order so
\* that a later entry with the same lowered symbol overwrites an earlier one
TokenMapFrom(tokens, i, acc) ==
    IF i > Len(tokens) THEN acc
    ELSE LET t == tokens[i] IN
         IF "symbol" \in DOMAIN t /\ "address" \in DOMAIN t
         THEN LET k == Lower(t.symbol) IN
              TokenMapFrom(tokens, i + 1,
                  [x \in DOMAIN acc \cup {k} |->
                      IF x = k THEN t.address ELSE acc[x]])
         ELSE TokenMapFrom(tokens, i + 1, acc)

\* body of get_jupiter_token_map: the map, or {} when anything raised
JupiterTokenMap(outcome) ==
    IF outcome.ok THEN TokenMapFrom(outcome.tokens, 1, <<>>) ELSE <<>>

EmptyCache == [full |-> FALSE, map |-> <<>>, src |-> [ok |-> FALSE, tokens |-> <<>>]]

\* lru_cache(maxsize=1) on a zero-argument function: the value computed on
\* a miss is stored unless another call stored one meanwhile; a stored
\* value is never replaced (no cache_clear in the program).  `src` records
\* the fetch outcome the stored map was built from.
LruStore(c, map, outcome) ==
    IF c.full THEN c ELSE [full |-> TRUE, map |-> map, src |-> outcome]

----------------------------------------------------------------------------
(* resolve *)

\* get_token_mint_from_symbol after token_map is obtained (main.py:81-84)
get_token_mint_from_symbol(token_map, symbol) ==
    LET k == Lower(symbol) IN
    IF k \notin DOMAIN token_map \/ token_map[k] = ""
    THEN HTTPException(404, "Mint not found for symbol")
    ELSE ResolveOk(Upper(symbol), token_map[k])

\* the first branch of resolve_to_mint (main.py:87)
LooksLikeMint(token_input) ==
    Len(token_input) > 30 /\ StartsWith(token_input, "So")

\* A worker starts resolve_symbol(symbol): resolve_to_mint either returns
\* the input unchanged, or calls get_jupiter_token_map, which answers from
\* the cache or issues the token-list fetch.
ResolveCall(t, symbol) ==
    /\ endpoint = "resolve"
    /\ pc[t] = "idle"
    /\ rsym' = [rsym EXCEPT ![t] = symbol]
    /\ IF LooksLikeMint(symbol)
       THEN /\ pc' = [pc EXCEPT ![t] = "done"]
            /\ rres' = [rres EXCEPT ![t] = ResolveOk(Upper(symbol), symbol)]
            /\ UNCHANGED <<cache, fetches, rmap, rtrace>>
       ELSE IF cache.full
       THEN /\ pc' = [pc EXCEPT ![t] = "done"]
            /\ rmap' = [rmap EXCEPT ![t] = [map |-> cache.map, src |-> cache.src]]
            /\ rtrace' = [rtrace EXCEPT ![t] = <<"cache_hit", "map_get">>]
            /\ rres' = [rres EXCEPT ![t] =
                            get_token_mint_from_symbol(cache.map, symbol)]
            /\ UNCHANGED <<cache, fetches>>
       ELSE /\ pc' = [pc EXCEPT ![t] = "fetching"]
            /\ fetches' = fetches + 1
            /\ rtrace' = [rtrace EXCEPT ![t] = <<"fetch">>]
            /\ UNCHANGED <<cache, rmap, rres>>
    /\ UNCHANGED endpoint
    /\ UNCHANGED <<swapVars, rpcVars>>

\* The token-list GET of a worker completes: the map is built (or {} on
\* failure), lru_cache stores it if nothing is stored yet, and the worker
\* looks its symbol up in the map it computed itself.
ResolveFetchReturn(t, outcome) ==
    /\ endpoint = "resolve"
    /\ pc[t] = "fetching"
    /\ LET m == JupiterTokenMap(outcome) IN
       /\ cache' = LruStore(cache, m, outcome)
       /\ rmap' = [rmap EXCEPT ![t] = [map |-> m, src |-> outcome]]
       /\ rres' = [rres EXCEPT ![t] = get_token_mint_from_symbol(m, rsym[t])]
    /\ rtrace' = [rtrace EXCEPT ![t] = Append(@, "map_get")]
    /\ pc' = [pc EXCEPT ![t] = "done"]
    /\ UNCHANGED <<endpoint, fetches, rsym>>
    /\ UNCHANGED <<swapVars, rpcVars>>

ResolveInit ==
    /\ cache = EmptyCache
    /\ fetches = 0
    /\ pc = [t \in Threads |-> "idle"]
    /\ rsym = [t \in Threads |-> ""]
    /\ rmap = [t \in Threads |-> [map |-> <<>>, src |-> [ok |-> FALSE, tokens |-> <<>>]]]
    /\ rtrace = [t \in Threads |-> <<>>]
    /\ rres = [t \in Threads |-> NoResponse]

----------------------------------------------------------------------------
(* Numbers and their text forms *)

RECURSIVE Pow10(_)
Pow10(n) == IF n = 0 THEN 1 ELSE 10 * Pow10(n - 1)

\* int(): truncation toward zero
Trunc(n, d) == IF n >= 0 THEN n \div d ELSE -((-n) \div d)

Digits == "0123456789"

RECURSIVE NatStr(_)
NatStr(n) ==
    IF n < 10 THEN CharAt(Digits, n + 1)
    ELSE NatStr(n \div 10) \o CharAt(Digits, (n % 10) + 1)

\* str(int)
IntStr(n) == IF n < 0 THEN "-" \o NatStr(-n) ELSE NatStr(n)

RECURSIVE GroupThousands(_)
GroupThousands(s) ==
    IF Len(s) <= 3 THEN s
    ELSE GroupThousands(SubSeq(s, 1, Len(s) - 3)) \o "," \o SubSeq(s, Len(s) - 2, Len(s))

\* f"{n:,}"
FormatCommas(n) ==
    IF n < 0 THEN "-" \o GroupThousands(NatStr(-n)) ELSE GroupThousands(NatStr(n))

RECURSIVE ParseNat(_, _)
\* value of a digit string, -1 when a character is no digit
ParseNat(s, acc) ==
    IF Len(s) = 0 THEN acc
    ELSE LET d == IndexOf(CharAt(s, 1), Digits, 1) IN
         IF d = 0 THEN -1 ELSE ParseNat(SubSeq(s, 2, Len(s)), acc * 10 + (d - 1))

\* int(str): [ok, val]; ok is FALSE where Python raises ValueError
ParseInt(s) ==
    LET neg == StartsWith(s, "-")
        body == IF neg THEN SubSeq(s, 2, Len(s)) ELSE s
        v == IF Len(body) = 0 THEN -1 ELSE ParseNat(body, 0)
    IN  [ok |-> v >= 0, val |-> IF v < 0 THEN 0 ELSE IF neg THEN -v ELSE v]

\* The float query parameter `amount`.  A finite value is m / 10^e with m
\* not divisible by 10 when e > 0; the values used are binary fractions, on
\* which the float products and truncations below are exact.
Dec(m, e) == [finite |-> TRUE, m |-> m, e |-> e]
NaN == [finite |-> FALSE, m |-> 0, e |-> 0]

RECURSIVE ZeroPad(_, _)
ZeroPad(s, w) == IF Len(s) >= w THEN s ELSE ZeroPad("0" \o s, w)

\* str(float) as the f-string of main.py:189 renders it
FloatStr(a) ==
    IF ~a.finite THEN "nan"
    ELSE LET abs == IF a.m < 0 THEN -a.m ELSE a.m
             p == Pow10(a.e)
             frac == IF a.e = 0 THEN "0" ELSE ZeroPad(NatStr(abs % p), a.e)
         IN  (IF a.m < 0 THEN "-" ELSE "") \o NatStr(abs \div p) \o "." \o frac

----------------------------------------------------------------------------
(* /swap: simulate_swap *)

\* Values of the query parameters of /swap.  slippage_bps is a parameter a
\* caller may send; simulate_swap declares no such parameter, so it never
\* reaches the handler.
SwapMints == {WSOL_MINT, USDC_MINT, BONK_MINT}
SwapAmounts == {Dec(15, 1), Dec(2, 0), Dec(25, 2), Dec(0, 0), Dec(-5, 1), NaN}
SlippageInputs == {50, 10001}
SwapRequests ==
    [input_mint : SwapMints, output_mint : SwapMints,
     amount : SwapAmounts, slippage_bps : SlippageInputs]

NoRequest ==
    [input_mint |-> "", output_mint |-> "", amount |-> Dec(0, 0), slippage_bps |-> 0]

\* One element of the quote's routePlan; inputMint "" stands for a step
\* whose swapInfo carries no inputMint.
Step(imint) == [inputMint |-> imint]

\* What the GET of the quote URL can produce: a RequestException (timeout,
\* connection error), a non-200 status, or a 200 whose body is invalid
\* JSON or a JSON object with or without outAmount and routePlan.
QuoteBody(hasOut, out, hasPlan, plan) ==
    [kind |-> "json", code |-> 200, hasOut |-> hasOut, outAmount |-> out,
     hasPlan |-> hasPlan, routePlan |-> plan]
QuoteReplies ==
    { [kind |-> "exception", code |-> 0, hasOut |-> FALSE, outAmount |-> "",
       hasPlan |-> FALSE, routePlan |-> <<>>],
      [kind |-> "status", code |-> 500, hasOut |-> FALSE, outAmount |-> "",
       hasPlan |-> FALSE, routePlan |-> <<>>],
      [kind |-> "badjson", code |-> 200, hasOut |-> FALSE, outAmount |-> "",
       hasPlan |-> FALSE, routePlan |-> <<>>],
      QuoteBody(FALSE, "", FALSE, <<>>),
      QuoteBody(FALSE, "", TRUE, <<>>),
      QuoteBody(TRUE, "150000000", TRUE, <<Step(WSOL_MINT)>>),
      QuoteBody(TRUE, "150000000", TRUE, <<Step(BONK_MINT), Step(WSOL_MINT)>>),
      QuoteBody(TRUE, "1500", TRUE, <<Step(USDC_MINT)>>),
      QuoteBody(TRUE, "0", TRUE, <<Step(WSOL_MINT)>>),
      QuoteBody(TRUE, "0", TRUE, <<>>),
      QuoteBody(TRUE, "150000000", TRUE, <<>>),
      QuoteBody(TRUE, "150000000", FALSE, <<>>),
      QuoteBody(TRUE, "n/a", TRUE, <<Step("")>>) }

NoReply ==
    [kind |-> "none", code |-> 0, hasOut |-> FALSE, outAmount |-> "",
     hasPlan |-> FALSE, routePlan |-> <<>>]

SwapError(code, text) ==
    [status |-> code, detail |-> text, input_amount |-> "", output_estimate |-> "",
     slippage |-> "", route |-> "", platform |-> ""]
\* an exception no handler catches: the framework answers 500
Unhandled(what) == SwapError(500, what)
NoSwapResponse == SwapError(0, "")

\* main.py:133-142: [raised, none, val].  SOL goes through int(amount * 1e9),
\* outside any try; every other mint through int(amount) inside the try.
RawAmount(input_mint_addr, amount) ==
    IF input_mint_addr = WSOL_MINT
    THEN IF ~amount.finite
         THEN [raised |-> TRUE, none |-> FALSE, val |-> 0]
         ELSE [raised |-> FALSE, none |-> FALSE,
               val |-> IF amount.e <= 9
                       THEN amount.m * Pow10(9 - amount.e)
                       ELSE Trunc(amount.m, Pow10(amount.e - 9))]
    ELSE IF ~amount.finite
         THEN [raised |-> FALSE, none |-> TRUE, val |-> 0]
         ELSE [raised |-> FALSE, none |-> FALSE,
               val |-> Trunc(amount.m, Pow10(amount.e))]

\* the query string of main.py:146-150
QuoteUrl(req, raw_amount) ==
    [inputMint |-> req.input_mint, outputMint |-> req.output_mint,
     amount |-> raw_amount, slippageBps |-> 50]

\* the nested mint_to_symbol of main.py:172-180 ("..." stands for U+2026)
mint_to_symbol(mint_addr) ==
    IF mint_addr = WSOL_MINT THEN "SOL"
    ELSE IF mint_addr = USDC_MINT THEN "USDC"
    ELSE IF mint_addr = USDT_MINT THEN "USDT"
    ELSE IF mint_addr = "" THEN "UNK"
    ELSE SubSeq(mint_addr, 1, 4) \o "..."
            \o SubSeq(mint_addr, Len(mint_addr) - 2, Len(mint_addr))

\* main.py:166-185
RouteSteps(plan, output_mint_addr) ==
    IF Len(plan) = 0 THEN <<>>
    ELSE [i \in 1..(Len(plan) + 1) |->
            IF i <= Len(plan) THEN mint_to_symbol(plan[i].inputMint)
            ELSE mint_to_symbol(output_mint_addr)]

RECURSIVE Join(_, _)
\* sep.join(seq)
Join(sep, seq) ==
    IF Len(seq) = 0 THEN ""
    ELSE IF Len(seq) = 1 THEN seq[1]
    ELSE seq[1] \o sep \o Join(sep, Tail(seq))

\* out_amount_str of main.py:164
OutAmountStr(out_amount) == FormatCommas(out_amount)

\* main.py:152-194: the response built from Jupiter's reply
SwapResponse(req, reply) ==
    IF reply.kind = "exception" THEN SwapError(502, "Jupiter quote request failed")
    ELSE IF reply.code # 200 THEN SwapError(502, "Jupiter API returned error")
    ELSE IF reply.kind = "badjson" THEN Unhandled("JSONDecodeError")
    ELSE IF ~reply.hasOut THEN SwapError(502, "Invalid quote response")
    ELSE LET parsed == ParseInt(reply.outAmount)
             route_steps == RouteSteps(IF reply.hasPlan THEN reply.routePlan ELSE <<>>,
                                       req.output_mint)
         IN  IF ~parsed.ok THEN Unhandled("ValueError")
             ELSE IF Len(route_steps) = 0 THEN Unhandled("IndexError")
             ELSE [status |-> 200, detail |-> "",
                   input_amount |-> FloatStr(req.amount) \o " " \o route_steps[1],
                   output_estimate |-> OutAmountStr(parsed.val) \o " "
                                          \o route_steps[Len(route_steps)],
                   slippage |-> "0.5%",
                   route |-> Join(" -> ", route_steps),
                   platform |-> "Jupiter Aggregator"]

\* simulate_swap up to the GET of the quote URL
SwapCall(req) ==
    /\ endpoint = "swap"
    /\ spc = "idle"
    /\ sreq' = req
    /\ LET raw == RawAmount(req.input_mint, req.amount) IN
       IF raw.raised
       THEN /\ sres' = Unhandled("ValueError")
            /\ spc' = "done"
            /\ UNCHANGED squote
       ELSE IF raw.none
       THEN /\ sres' = SwapError(422, "Invalid amount")
            /\ spc' = "done"
            /\ UNCHANGED squote
       ELSE /\ squote' = Append(squote, QuoteUrl(req, raw.val))
            /\ spc' = "quoting"
            /\ UNCHANGED sres
    /\ UNCHANGED <<endpoint, sreply>>
    /\ UNCHANGED <<resolveVars, rpcVars>>

\* the GET returns (or raises) and simulate_swap runs to its end
SwapQuoteReturn(reply) ==
    /\ endpoint = "swap"
    /\ spc = "quoting"
    /\ sreply' = reply
    /\ sres' = SwapResponse(sreq, reply)
    /\ spc' = "done"
    /\ UNCHANGED <<endpoint, sreq, squote>>
    /\ UNCHANGED <<resolveVars, rpcVars>>

SwapInit ==
    /\ spc = "idle"
    /\ sreq = NoRequest
    /\ squote = <<>>
    /\ sreply = NoReply
    /\ sres = NoSwapResponse

----------------------------------------------------------------------------
(* get_rpc_response, called by /transaction (get_transaction) *)

AllRpcEndpoints ==
    << "https://rpc.helius.xyz", "https://mainnet.helius-rpc.com",
       "https://api.mainnet-beta.solana.com", "https://solana-api.projectserum.com",
       "https://rpc.ankr.com/solana", "https://solana.rpcpool.com",
       "https://solana-mainnet.g.alchemy.com", "https://mainnet.rpc.solana.com",
       "https://solana-mainnet.rpc.extrnode.com", "https://api.metaplex.solana.com",
       "https://solana-api.syndica.io" >>

RPC_ENDPOINTS == SubSeq(AllRpcEndpoints, 1, NumEndpoints)

\* the orders shuffle() can leave the copy in
Shuffles(list) ==
    {[i \in 1..Len(list) |-> list[p[i]]] : p \in Permutations(1..Len(list))}

\* The "result" of a getTransaction reply: meta with err and fee (fee -1:
\* no fee field), or no meta; no instruction list.
Tx(hasMeta, err, fee) == [hasMeta |-> hasMeta, err |-> err, fee |-> fee]
NoTx == Tx(FALSE, FALSE, -1)

\* What one POST can produce: an exception (timeout, connection error,
\* invalid JSON), or a JSON object without "result", with a null "result",
\* or with a transaction as "result".
RpcReplies ==
    { [kind |-> "exception", hasResult |-> FALSE, isNull |-> FALSE, result |-> NoTx],
      [kind |-> "json", hasResult |-> FALSE, isNull |-> FALSE, result |-> NoTx],
      [kind |-> "json", hasResult |-> TRUE, isNull |-> TRUE, result |-> NoTx],
      [kind |-> "json", hasResult |-> TRUE, isNull |-> FALSE, result |-> Tx(TRUE, FALSE, 5000)],
      [kind |-> "json", hasResult |-> TRUE, isNull |-> FALSE, result |-> Tx(TRUE, TRUE, -1)],
      [kind |-> "json", hasResult |-> TRUE, isNull |-> FALSE, result |-> NoTx] }

\* a test that forgets `data['result'] is not None`
AcceptedAnyResult(reply) ==
    reply.kind = "json" /\ reply.hasResult

\* main.py:98: the reply ends the loop
Accepted(reply) ==
    reply.kind = "json" /\ reply.hasResult /\ ~reply.isNull

Signature == "5VERv8NMvzbJMEkV8xnrLkEaWRtSz9CosKDYjCJjBRnb"

TxResponse(err, details, summary) ==
    [error |-> err, details |-> details,
     signature |-> IF err = "" THEN Signature ELSE "", summary |-> summary]
NoTxResponse == [error |-> "", details |-> "", signature |-> "", summary |-> ""]

\* main.py:353-361 and 398: the summary of a transaction without instructions
SummaryLines(tx) ==
    IF ~tx.hasMeta THEN <<>>
    ELSE <<IF tx.err THEN "**Transaction Status**: Failed"
                     ELSE "**Transaction Status**: Success">>
         \o (IF tx.fee >= 0 THEN <<"**Fee Paid**: " \o IntStr(tx.fee) \o " lamports">>
             ELSE <<>>)

\* get_transaction once get_rpc_response returned tx_data (main.py:349-399)
TransactionOf(tx_data) ==
    IF ~tx_data.hasResult \/ tx_data.isNull
    THEN TxResponse("Transaction not found", "", "")
    ELSE LET summary_lines == SummaryLines(tx_data.result) IN
         TxResponse("", "",
             IF Len(summary_lines) > 0 THEN Join("\n", summary_lines)
             ELSE "No parsed instruction details available.")

\* get_transaction when get_rpc_response raised (main.py:347-348)
TransactionFailed ==
    TxResponse("Unable to fetch transaction", "All RPC endpoints failed or timed out", "")

\* a loop that tries the same endpoint again after an exception
NextIndexRetrying(i, reply) == IF reply.kind = "exception" THEN i ELSE i + 1

\* main.py:94-101 for one element of rpc_list: where the loop goes after
\* the reply of the endpoint at position i
NextIndex(i, reply) == i + 1

\* get_transaction calls get_rpc_response, which copies and shuffles the list
RpcCall(order) ==
    /\ endpoint = "rpc"
    /\ xpc = "idle"
    /\ rpc_list' = order
    /\ xidx' = 1
    /\ xpc' = "loop"
    /\ UNCHANGED <<endpoint, xlog, xres>>
    /\ UNCHANGED <<resolveVars, swapVars>>

\* One iteration of the loop: the POST to rpc_list[xidx] and its reply.  An
\* accepted reply is returned and get_transaction finishes; otherwise the
\* loop goes on, and past the last endpoint get_rpc_response raises.
RpcTry(reply) ==
    /\ endpoint = "rpc"
    /\ xpc = "loop"
    /\ xidx <= Len(rpc_list)
    /\ xlog' = Append(xlog, [url |-> rpc_list[xidx], reply |-> reply])
    /\ IF Accepted(reply)
       THEN /\ xres' = TransactionOf(reply)
            /\ xpc' = "done"
            /\ UNCHANGED xidx
       ELSE /\ xidx' = NextIndex(xidx, reply)
            /\ IF NextIndex(xidx, reply) > Len(rpc_list)
               THEN xres' = TransactionFailed /\ xpc' = "done"
               ELSE UNCHANGED <<xres, xpc>>
    /\ UNCHANGED <<endpoint, rpc_list>>
    /\ UNCHANGED <<resolveVars, swapVars>>

RpcInit ==
    /\ xpc = "idle"
    /\ rpc_list = <<>>
    /\ xidx = 0
    /\ xlog = <<>>
    /\ xres = NoTxResponse

----------------------------------------------------------------------------

Init ==
    /\ endpoint \in {"resolve", "swap", "rpc"}
    /\ ResolveInit
    /\ SwapInit
    /\ RpcInit

Next ==
    \/ \E t \in Threads, s \in ResolveInputs : ResolveCall(t, s)
    \/ \E t \in Threads, o \in FetchOutcomes : ResolveFetchReturn(t, o)
    \/ \E r \in SwapRequests : SwapCall(r)
    \/ \E y \in QuoteReplies : SwapQuoteReturn(y)
    \/ \E o \in Shuffles(RPC_ENDPOINTS) : RpcCall(o)
    \/ \E y \in RpcReplies : RpcTry(y)

Spec == Init /\ [][Next]_vars

\* Every POST of get_rpc_response carries timeout=5 and the loop body has no
\* other blocking call, so an iteration that has begun comes to its end.
FairSpec == Spec /\ WF_vars(\E y \in RpcReplies : RpcTry(y))

----------------------------------------------------------------------------
(* Vocabulary of the properties *)

Base58Alphabet == "123456789ABCDEFGHJKLMNPQRSTUVWXYZabcdefghijkmnopqrstuvwxyz"

RECURSIVE MulAdd(_, _, _, _)
\* bytes (least significant first) * k + carry
MulAdd(bytes, k, carry, i) ==
    IF i > Len(bytes)
    THEN IF carry = 0 THEN bytes
         ELSE MulAdd(Append(bytes, carry % 256), k, carry \div 256, i + 1)
    ELSE LET v == bytes[i] * k + carry IN
         MulAdd([bytes EXCEPT ![i] = v % 256], k, v \div 256, i + 1)

RECURSIVE Base58Number(_, _, _)
\* the bytes of the number s denotes; <<-1>> when a character is outside the alphabet
Base58Number(s, i, bytes) ==
    IF i > Len(s) THEN bytes
    ELSE LET d == IndexOf(CharAt(s, i), Base58Alphabet, 1)
             next == IF d = 0 THEN <<-1>> ELSE MulAdd(bytes, 58, d - 1, 1)
         IN  IF next = <<-1>> THEN next ELSE Base58Number(s, i + 1, next)

RECURSIVE LeadingOnes(_, _)
LeadingOnes(s, i) ==
    IF i <= Len(s) /\ CharAt(s, i) = "1" THEN 1 + LeadingOnes(s, i + 1) ELSE 0

\* number of bytes s decodes to as base58 text, -1 when it is no base58 text
Base58DecodedLen(s) ==
    LET bytes == Base58Number(s, 1, <<>>) IN
    IF bytes = <<-1>> THEN -1 ELSE Len(bytes) + LeadingOnes(s, 1)

\* the identifiers that are valid mint addresses
ValidMints == {s \in ResolveInputs : Base58DecodedLen(s) = 32}

RECURSIVE IsBlank(_)
\* empty or whitespace-only
IsBlank(s) == Len(s) = 0 \/ (CharAt(s, 1) = " " /\ IsBlank(SubSeq(s, 2, Len(s))))

\* the mint addresses of the token records that carry symbol s, compared
\* case-insensitively
MintsOfSymbol(tokens, s) ==
    {tokens[i].address : i \in
        {j \in 1..Len(tokens) :
            /\ "symbol" \in DOMAIN tokens[j]
            /\ "address" \in DOMAIN tokens[j]
            /\ Lower(tokens[j].symbol) = Lower(s)}}

RecordsOfSymbol(tokens, s) ==
    {j \in 1..Len(tokens) :
        /\ "symbol" \in DOMAIN tokens[j]
        /\ "address" \in DOMAIN tokens[j]
        /\ Lower(tokens[j].symbol) = Lower(s)}

AddressesOf(tokens) ==
    {tokens[i].address : i \in {j \in 1..Len(tokens) : "address" \in DOMAIN tokens[j]}}

\* the number of fractional digits of each mint
TokenDecimals(mint) ==
    IF mint = WSOL_MINT THEN 9
    ELSE IF mint = USDC_MINT THEN 6
    ELSE IF mint = USDT_MINT THEN 6
    ELSE 5

\* How the error kinds show in a response.  The handlers answer 422 to an
\* argument they reject, 404 to an unknown symbol and 502 to a provider
\* failure; a kind the program has no response of its own for is read as
\* widely as the statuses allow, so that only the behaviour can refute a
\* property, never the wording of an error.
InvalidArgument(r) == r.status = 422
AmbiguousSymbol(r) == r.status >= 400 /\ r.status < 500 /\ r.status # 404
SameToken(r) == r.status >= 400 /\ r.status < 500
ProviderUnavailable(r) ==
    /\ r.status = 502
    /\ r.detail \in {"Jupiter quote request failed", "Jupiter API returned error"}
NoRouteFound(r) ==
    /\ r.status >= 400
    /\ ~ProviderUnavailable(r)

Looked(t) == pc[t] = "done" /\ Len(rtrace[t]) > 0

FetchCount(t) == Cardinality({i \in 1..Len(rtrace[t]) : rtrace[t][i] = "fetch"})

PositiveAmount(a) == a.finite /\ a.m > 0

SlippageInRange(bps) == bps >= 0 /\ bps <= 10000

\* a request that has been made and that no validation rule rejects
ValidSwapRequest ==
    /\ spc # "idle"
    /\ PositiveAmount(sreq.amount)
    /\ SlippageInRange(sreq.slippage_bps)
    /\ sreq.input_mint # sreq.output_mint

----------------------------------------------------------------------------
(* Properties *)

\* C1: a symbol carried by exactly one token record resolves to that
\* record's mint; a symbol carried by records with two or more different
\* mints fails with AmbiguousSymbol and never yields a candidate address.
C1_SymbolResolution ==
    \A t \in Threads :
        Looked(t) =>
            LET tokens == rmap[t].src.tokens
                recs == RecordsOfSymbol(tokens, rsym[t])
                mints == MintsOfSymbol(tokens, rsym[t])
            IN  /\ Cardinality(recs) = 1 =>
                    rres[t].status = 200 /\ rres[t].mint \in mints
                /\ Cardinality(mints) >= 2 =>
                    AmbiguousSymbol(rres[t]) /\ rres[t].mint \notin mints

\* C2: an identifier that is a valid mint address of a token in the
\* registry resolves to that same address, whatever its first characters.
C2_AddressPath ==
    \A t \in Threads :
        (/\ Looked(t)
         /\ rsym[t] \in ValidMints
         /\ rsym[t] \in AddressesOf(rmap[t].src.tokens))
            => (rres[t].status = 200 /\ rres[t].mint = rsym[t])

\* C3: an empty or whitespace-only identifier fails with InvalidArgument,
\* and no lookup or fetch precedes the error.
C3_BlankRejectedFirst ==
    \A t \in Threads :
        (pc[t] # "idle" /\ IsBlank(rsym[t]))
            => /\ rtrace[t] = <<>>
               /\ pc[t] = "done"
               /\ InvalidArgument(rres[t])

\* C4: a request whose amount is not greater than 0, or whose slippage_bps
\* is outside 0..10000, is rejected with InvalidArgument and the quote
\* provider is never called for it.
C4_InvalidRequestRejected ==
    (/\ spc # "idle"
     /\ sreq.input_mint # sreq.output_mint
     /\ ~PositiveAmount(sreq.amount) \/ ~SlippageInRange(sreq.slippage_bps))
        => /\ squote = <<>>
           /\ spc = "done"
           /\ InvalidArgument(sres)

\* C5: a request whose input and output are the same mint fails with
\* SameToken, for every amount, and no quote request is sent.
C5_SameTokenRejected ==
    (/\ spc # "idle"
     /\ PositiveAmount(sreq.amount)
     /\ SlippageInRange(sreq.slippage_bps)
     /\ sreq.input_mint = sreq.output_mint)
        => /\ squote = <<>>
           /\ spc = "done"
           /\ SameToken(sres)

\* C6: for a positive amount a with at most d fractional digits, d the
\* decimals of the input token, the amount sent to the provider is a * 10^d.
C6_AtomicAmountSent ==
    LET d == TokenDecimals(sreq.input_mint) IN
    (/\ ValidSwapRequest
     /\ sreq.amount.e <= d
     /\ Len(squote) > 0)
        => squote[1].amount = sreq.amount.m * Pow10(d - sreq.amount.e)

\* C7: a 200 reply whose output amount is 0 or absent yields NoRouteFound,
\* never a success and never the transport error; a transport failure,
\* timeout or non-200 status yields ProviderUnavailable.
C7_ProviderOutcomes ==
    (ValidSwapRequest /\ spc = "done" /\ Len(squote) > 0) =>
        /\ (/\ sreply.kind = "json"
            /\ \/ ~sreply.hasOut
               \/ (ParseInt(sreply.outAmount).ok /\ ParseInt(sreply.outAmount).val = 0))
              => NoRouteFound(sres)
        /\ sreply.kind \in {"exception", "status"} => ProviderUnavailable(sres)

\* C8: the output amount of a successful result is the provider's atomic
\* output amount divided by 10^d, d the decimals of the output token.
C8_OutputInHumanUnits ==
    (ValidSwapRequest /\ spc = "done" /\ sres.status = 200) =>
        LET out == ParseInt(sreply.outAmount).val
            scale == Pow10(TokenDecimals(sreq.output_mint))
        IN  out % scale = 0 =>
                sres.output_estimate =
                    FormatCommas(out \div scale) \o " " \o mint_to_symbol(sreq.output_mint)

\* C9 as stated: every outbound call (token-list fetch, RPC lookup,
\* provider quote) is attempted at most once per request.
C9_AtMostOneAttempt ==
    /\ Len(squote) <= 1
    /\ \A t \in Threads : FetchCount(t) <= 1
    /\ Len(xlog) <= 1

\* C9 as amended: the provider quote and the token-list fetch are attempted
\* at most once per request, and their failure ends the request with an
\* error response; an RPC lookup contacts each endpoint at most once, goes
\* on to the next endpoint only after a reply it does not accept, and the
\* failure is surfaced exactly when every endpoint has been tried in vain.
C9_OneAttemptPerEndpoint ==
    /\ Len(squote) <= 1
    /\ (spc = "done" /\ sreply.kind \in {"exception", "status"}) => sres.status = 502
    /\ \A t \in Threads :
        /\ FetchCount(t) <= 1
        /\ (pc[t] = "done" /\ FetchCount(t) = 1 /\ ~rmap[t].src.ok)
              => rres[t].status = 404
    /\ Len(xlog) <= Len(RPC_ENDPOINTS)
    /\ \A i, j \in 1..Len(xlog) : i < j =>
          /\ xlog[i].url # xlog[j].url
          /\ ~Accepted(xlog[i].reply)
    /\ xpc = "done" =>
          (xres.error = "Unable to fetch transaction"
              <=> /\ Len(xlog) = Len(RPC_ENDPOINTS)
                  /\ \A i \in 1..Len(xlog) : ~Accepted(xlog[i].reply))

\* an RPC lookup that failed on every endpoint and surfaced the error
C9_Witness ==
    /\ xpc = "done"
    /\ xres.error = "Unable to fetch transaction"
    /\ Len(xlog) = NumEndpoints
    /\ xlog[1].reply.kind = "exception"

\* C10: under any interleaving of resolve requests the token list is
\* fetched once, the stored index is never replaced, and every resolve
\* reads the same index contents.
C10_IndexBuiltOnce ==
    /\ fetches <= 1
    /\ \A t \in Threads : Looked(t) => rmap[t].map = cache.map

\* the replies get_rpc_response has received match the head of rpc_list,
\* which is a rearrangement of RPC_ENDPOINTS
ContactsInListOrder ==
    /\ Len(xlog) <= Len(rpc_list)
    /\ \A i \in 1..Len(xlog) : xlog[i].url = rpc_list[i]
    /\ xpc # "idle" =>
          /\ Len(rpc_list) = Len(RPC_ENDPOINTS)
          /\ \A k \in 1..Len(RPC_ENDPOINTS) :
                Cardinality({i \in 1..Len(rpc_list) : rpc_list[i] = RPC_ENDPOINTS[k]}) = 1

\* the safety part of C11
RpcLoopSafe ==
    /\ ContactsInListOrder
    \* no endpoint is contacted after one whose reply has a non-null result
    /\ \A i \in 1..Len(xlog) : Accepted(xlog[i].reply) => i = Len(xlog)
    \* while no such reply has come and endpoints are left, the loop goes on
    /\ (xpc = "loop") =>
          /\ xidx = Len(xlog) + 1
          /\ xidx <= Len(rpc_list)
          /\ \A i \in 1..Len(xlog) : ~Accepted(xlog[i].reply)
    /\ (xpc = "done") =>
          LET last == xlog[Len(xlog)].reply IN
          /\ Len(xlog) > 0
          \* a returned response is the accepted reply, whose result is there
          /\ Accepted(last) =>
                /\ last.hasResult /\ ~last.isNull
                /\ xres = TransactionOf(last)
                /\ xres.error = ""
          \* it raises only after the last endpoint, none having been accepted
          /\ ~Accepted(last) =>
                /\ Len(xlog) = Len(RPC_ENDPOINTS)
                /\ xres = TransactionFailed
    /\ xres.error # "Transaction not found"

\* C11: get_rpc_response terminates; it contacts each endpoint at most
\* once, in the order of a permutation of the list; it returns the reply
\* of the first endpoint whose reply has a non-null result and contacts
\* none after it; it raises only when every endpoint was tried in vain;
\* it never returns a null or missing result, so get_transaction never
\* answers "Transaction not found".
C11_RpcLoopTerminates ==
    /\ []RpcLoopSafe
    /\ (xpc = "loop") ~> (xpc = "done")

\* a lookup answered by the second endpoint after the first returned a
\* null result
C11_Witness ==
    /\ xpc = "done"
    /\ Len(xlog) = 2
    /\ xlog[1].reply.hasResult /\ xlog[1].reply.isNull
    /\ Accepted(xlog[2].reply)
    /\ xres.error = ""

\* C12: whenever Jupiter answers 200 with a body that contains outAmount,
\* simulate_swap returns the normalized result (input_amount,
\* output_estimate, slippage, route, platform) and no unhandled error, also
\* when routePlan is empty or absent.
C12_QuoteWithOutAmountSucceeds ==
    (/\ ValidSwapRequest
     /\ spc = "done"
     /\ sreply.kind = "json"
     /\ sreply.hasOut
     /\ ParseInt(sreply.outAmount).ok)
        => /\ sres.status = 200
           /\ sres.platform = "Jupiter Aggregator"
           /\ sres.slippage = "0.5%"

====
